---- MODULE Spec2Model ----
(***************************************************************************)
(* Model of src/spoof.py: the in-memory limit order book SimExchange       *)
(* (place_limit, cancel, get_top, _insert, _match).                        *)
(*                                                                         *)
(* Order objects live in a heap `orders` (one record per Order ever        *)
(* constructed, in construction order); the two deques of `book` hold      *)
(* references (heap indices).  The matching loop is stepped one iteration  *)
(* at a time (pc = "match") so that its intermediate states are visible;   *)
(* no other operation is enabled until the loop has returned.              *)
(*                                                                         *)
(* price, size and filled are Python floats.  They are modelled as binary  *)
(* floating-point numbers with round-to-nearest-even, the significand      *)
(* scaled down from 53 bits to MantBits bits: a value is an integer count  *)
(* of the smallest unit, and every + and - on size and filled is rounded   *)
(* by FRound.  Prices are counted in quarters (1 = 0.25) and every order   *)
(* price is an even count, so that price sums and midpoints are exact, as  *)
(* they are in a double for such prices.                                   *)
(* The ts fields (time.time()) are not modelled.                           *)
(*                                                                         *)
(* Spec is the book under arbitrary calls.  SpecCall is the same book with *)
(* the caller's view added: `entry`, the book as it was when the last      *)
(* place_limit was called, and `ret`, what the last completed call         *)
(* returned.  SpecLive is the LiveExchange stub under arbitrary calls:     *)
(* `live` holds its paper flag and the outcome of every call made on it.   *)
(* SpecRun is run_strategy: `run` holds its arguments, its position, the   *)
(* shutdown flag and the locals of spoof_cycle; it drives the book (mode   *)
(* sim) or the LiveExchange (mode live).  SpecRunFair adds that the steps  *)
(* of the strategy are eventually taken.                                   *)
(***************************************************************************)
EXTENDS Integers, Sequences, FiniteSets

\* ---------------------------------------------------------------- bounds
MaxOrders == 3          \* Orders constructed in one run
MantBits  == 3          \* significand bits of the scaled-down float
MaxLiveCalls == 3       \* calls made on a LiveExchange in one run
MaxCycles == 2          \* strategy cycles completed in one run
PriceBits == 17         \* significand bits of a price computed by the strategy

Ids    == {"a", "b"}    \* client order ids (the caller may repeat one)
Prices == {2, 4}        \* limit prices, even counts of a quarter
Sizes  == {3, 14}       \* order sizes, all positive
Sides  == {"buy", "sell"}

\* ---------------------------------------------------- float arithmetic
Pow2(n) == 2^n

\* the spacing of representable values around n >= 0
RECURSIVE Ulp(_, _)
Ulp(n, q) == IF n < Pow2(MantBits) * q THEN q ELSE Ulp(n, 2 * q)

\* round n >= 0 to the nearest representable value, ties to even
RoundNat(n) ==
    LET q   == Ulp(n, 1)
        lo  == (n \div q) * q
        rem == n - lo
    IN  IF 2 * rem < q THEN lo
        ELSE IF 2 * rem > q THEN lo + q
        ELSE IF (lo \div q) % 2 = 0 THEN lo ELSE lo + q

FRound(x) == IF x >= 0 THEN RoundNat(x) ELSE 0 - RoundNat(0 - x)

\* a fill that is subtracted instead of added
FAddWrongSign(x, y) == FRound(x - y)

FAdd(x, y) == FRound(x + y)
FSub(x, y) == FRound(x - y)

Representable(x) == FRound(x) = x

FMin(x, y) == IF y < x THEN y ELSE x

\* The strategy computes prices: bid - price_offset * (i + 1).  An offset
\* is counted in sixteenths (OffsetDen of them make one quarter), and the
\* result is rounded to PriceBits significant bits, ties to even: the
\* fewest bits that hold the default bid 49_999.5, whose neighbours are
\* then 0.5 apart as those of the double are 7.3e-12 apart.
OffsetDen == 4

RECURSIVE PriceUlp(_, _)
PriceUlp(n, q) == IF n < Pow2(PriceBits) * q THEN q ELSE PriceUlp(n, 2 * q)

PriceRound(n) ==
    LET q   == PriceUlp(n, 1)
        lo  == (n \div q) * q
        rem == n - lo
    IN  IF 2 * rem < q THEN lo
        ELSE IF 2 * rem > q THEN lo + q
        ELSE IF (lo \div q) % 2 = 0 THEN lo ELSE lo + q

\* px = bid - price_offset * (i + 1), bid and px in quarters
SpoofPx(bid, price_offset, i) ==
    PriceRound(bid * OffsetDen - PriceRound(price_offset * (i + 1))) \div OffsetDen

\* ------------------------------------------------------------- state
VARIABLES orders, book, trades, pc, entry, ret, live, run

bookvars == <<orders, book, trades, pc>>
callvars == <<entry, ret>>

vars == <<orders, book, trades, pc, entry, ret, live, run>>

Order(cid, side, price, size) ==
    [id |-> cid, side |-> side, price |-> price, size |-> size,
     filled |-> 0, status |-> "open"]

\* what a caller has seen of the book before its first call: nothing
NoEntry == [orders |-> <<>>, book |-> [buy |-> <<>>, sell |-> <<>>], ntrades |-> 0]
NoRet   == [kind |-> "none"]

\* run_strategy(args) before its first step.  `at` is the line it stands
\* at, `called` the adapter calls it has made with their outcomes, `done`
\* the cycles it has completed; bid, i, spoof_ids are the locals of
\* spoof_cycle, `pending` the cancel tasks of its gather that have not run
\* yet and `before` the book as it was when they were created.
NoCycle == [bid |-> 0, i |-> 0, spoof_ids |-> <<>>, pending |-> {},
            before |-> <<>>]

RunStart(mode, layers, layer_size, offset) ==
    [mode |-> mode,
     args |-> [layers |-> layers, layer_size |-> layer_size, offset |-> offset],
     at |-> "connect", cancel_flag |-> FALSE, called |-> {}, done |-> 0,
     cycle |-> NoCycle]

\* the strategy of the specifications that never run it
NoRun == RunStart("sim", 1, 3, 8)

\* LiveExchange(key, secret): paper defaults to True, nothing called yet
NoLive == [paper |-> TRUE, log |-> <<>>]

Init ==
    /\ orders = <<>>
    /\ book = [buy |-> <<>>, sell |-> <<>>]
    /\ trades = <<>>
    /\ pc = "idle"
    /\ entry = NoEntry
    /\ ret = NoRet
    /\ live = NoLive
    /\ run = NoRun

\* --------------------------------------------------------- sequences
InsertAt(q, idx, x) == SubSeq(q, 1, idx) \o <<x>> \o SubSeq(q, idx + 1, Len(q))

RemoveAt(q, i) == SubSeq(q, 1, i - 1) \o SubSeq(q, i + 1, Len(q))

\* ------------------------------------------------------------ _insert
\* cmp of _insert: the resting price p1 stays ahead of the new price p2
Cmp(side, p1, p2) == IF side = "buy" THEN p1 > p2 ELSE p1 < p2

\* the number of queue entries the while loop of _insert walks past
RECURSIVE InsertIdx(_, _, _, _)
InsertIdx(os, q, order, idx) ==
    IF idx < Len(q) /\ Cmp(order.side, os[q[idx + 1]].price, order.price)
    THEN InsertIdx(os, q, order, idx + 1)
    ELSE idx

\* q.append(order): the new order behind every resting one
InsertLast(os, bk, r) == [bk EXCEPT ![os[r].side] = Append(@, r)]

\* the book after _insert of the Order at heap index r
Insert(os, bk, r) ==
    LET order == os[r]
        q     == bk[order.side]
    IN  [bk EXCEPT ![order.side] = InsertAt(q, InsertIdx(os, q, order, 0), r)]

\* ------------------------------------------------------------- _match
\* a loop that also stops at equal prices
CrossesStrictly(buy, sell) == buy.price > sell.price

\* the loop goes on: not (buy.price < sell.price)
Crosses(buy, sell) == ~(buy.price < sell.price)

MatchQty(buy, sell) ==
    FMin(FSub(buy.size, buy.filled), FSub(sell.size, sell.filled))

\* the buyer's limit for the midpoint
MatchPxBuy(buy, sell) == buy.price

MatchPx(buy, sell) == (buy.price + sell.price) \div 2

\* a trade put at the front of the log
TradeLogFront(tr, px, qty) == <<[price |-> px, size |-> qty]>> \o tr

\* self.trades.append(...)
TradeLog(tr, px, qty) == Append(tr, [price |-> px, size |-> qty])

FillDone(o) == o.filled >= o.size

MatchGoesOn ==
    /\ book.buy # <<>>
    /\ book.sell # <<>>
    /\ Crosses(orders[Head(book.buy)], orders[Head(book.sell)])

\* the heap after one iteration: both fills, then the status of each side
Filled(os, b, s, qty) ==
    LET o1 == [os EXCEPT ![b].filled = FAdd(@, qty)]
        o2 == [o1 EXCEPT ![s].filled = FAdd(@, qty)]
        o3 == IF FillDone(o2[b]) THEN [o2 EXCEPT ![b].status = "filled"] ELSE o2
    IN  IF FillDone(o3[s]) THEN [o3 EXCEPT ![s].status = "filled"] ELSE o3

\* pop() for popleft(): the last order of the queue leaves, not the head
PoppedRight(os, bk, b, s) ==
    [buy  |-> IF FillDone(os[b]) THEN SubSeq(bk.buy, 1, Len(bk.buy) - 1)
                                 ELSE bk.buy,
     sell |-> IF FillDone(os[s]) THEN SubSeq(bk.sell, 1, Len(bk.sell) - 1)
                                 ELSE bk.sell]

\* the book after one iteration: popleft on each side that is done
Popped(os, bk, b, s) ==
    [buy  |-> IF FillDone(os[b]) THEN Tail(bk.buy) ELSE bk.buy,
     sell |-> IF FillDone(os[s]) THEN Tail(bk.sell) ELSE bk.sell]

\* ------------------------------------------------------------- cancel
\* the id test inverted: the open orders of any other id
HitsOther(os, q, id) ==
    {i \in 1..Len(q) : os[q[i]].id # id /\ os[q[i]].status = "open"}

\* the id test left out: every open order
HitsAny(os, q, id) ==
    {i \in 1..Len(q) : os[q[i]].status = "open"}

\* the queue positions of q whose order has this id and is open
Hits(os, q, id) ==
    {i \in 1..Len(q) : os[q[i]].id = id /\ os[q[i]].status = "open"}

FirstHit(os, q, id) ==
    CHOOSE i \in Hits(os, q, id) : \A j \in Hits(os, q, id) : i <= j

\* the <<heap, book, trade log>> after cancel(id): the first hit of the buy
\* queue, else the first hit of the sell queue, else nothing
CancelEff(os, bk, tr, id) ==
    IF Hits(os, bk.buy, id) # {}
    THEN LET i == FirstHit(os, bk.buy, id)
         IN  <<[os EXCEPT ![bk.buy[i]].status = "cancelled"],
               [bk EXCEPT !.buy = RemoveAt(bk.buy, i)], tr>>
    ELSE IF Hits(os, bk.sell, id) # {}
    THEN LET i == FirstHit(os, bk.sell, id)
         IN  <<[os EXCEPT ![bk.sell[i]].status = "cancelled"],
               [bk EXCEPT !.sell = RemoveAt(bk.sell, i)], tr>>
    ELSE <<os, bk, tr>>

\* ------------------------------------------------------------ get_top
DefaultBid == 199998    \* 49_999.5, in quarters
DefaultAsk == 200002    \* 50_000.5, in quarters

\* both defaults as soon as one side is empty
TopOfBothOrNone(os, bk) ==
    IF bk.buy # <<>> /\ bk.sell # <<>>
    THEN [bid |-> os[Head(bk.buy)].price, ask |-> os[Head(bk.sell)].price]
    ELSE [bid |-> DefaultBid, ask |-> DefaultAsk]

TopOf(os, bk) ==
    [bid |-> IF bk.buy # <<>> THEN os[Head(bk.buy)].price ELSE DefaultBid,
     ask |-> IF bk.sell # <<>> THEN os[Head(bk.sell)].price ELSE DefaultAsk]

\* ------------------------------------------------------------ actions
\* place_limit up to the call of _match: construct the Order, _insert it
Placed(side, price, size, cid) ==
    /\ pc = "idle"
    /\ LET os == Append(orders, Order(cid, side, price, size))
       IN  /\ orders' = os
           /\ book' = Insert(os, book, Len(os))
    /\ pc' = "match"
    /\ UNCHANGED trades

PlaceLimit(side, price, size, cid) ==
    /\ Len(orders) < MaxOrders
    /\ Placed(side, price, size, cid)

\* one iteration of the while loop of _match
MatchStep ==
    /\ pc = "match"
    /\ MatchGoesOn
    /\ LET b   == Head(book.buy)
           s   == Head(book.sell)
           qty == MatchQty(orders[b], orders[s])
           px  == MatchPx(orders[b], orders[s])
           os  == Filled(orders, b, s, qty)
       IN  /\ trades' = TradeLog(trades, px, qty)
           /\ orders' = os
           /\ book' = Popped(os, book, b, s)
    /\ UNCHANGED pc

\* the loop ends (a queue is empty, or break) and place_limit returns
MatchExit ==
    /\ pc = "match"
    /\ ~MatchGoesOn
    /\ pc' = "idle"
    /\ UNCHANGED <<orders, book, trades>>

Cancel(id) ==
    /\ pc = "idle"
    /\ LET eff == CancelEff(orders, book, trades, id)
       IN  /\ orders' = eff[1]
           /\ book' = eff[2]
           /\ trades' = eff[3]
    /\ UNCHANGED pc

\* get_top reads the two heads (TopOf) and writes nothing
GetTop ==
    /\ pc = "idle"
    /\ TopOf(orders, book) \in [bid : Int, ask : Int]
    /\ UNCHANGED bookvars

Next ==
    \/ \E side \in Sides, price \in Prices, size \in Sizes, cid \in Ids :
           PlaceLimit(side, price, size, cid) /\ UNCHANGED <<callvars, live, run>>
    \/ MatchStep /\ UNCHANGED <<callvars, live, run>>
    \/ MatchExit /\ UNCHANGED <<callvars, live, run>>
    \/ \E id \in Ids : Cancel(id) /\ UNCHANGED <<callvars, live, run>>
    \/ GetTop /\ UNCHANGED <<callvars, live, run>>

Spec == Init /\ [][Next]_vars

TypeOK ==
    /\ pc \in {"idle", "match"}
    /\ Len(orders) <= MaxOrders
    /\ \A i \in 1..Len(orders) :
           /\ orders[i].id \in Ids
           /\ orders[i].side \in Sides
           /\ orders[i].status \in {"open", "filled", "cancelled"}
           /\ Representable(orders[i].filled)

\* ------------------------------------------------- the caller's view
CallIds   == {"a"}          \* one client id: SpecCall is about fills
CallSizes == {1, 3, 14}     \* the sizes that round down as well as up

\* place_limit is called: the book as it is now is remembered
CallPlaceLimit(side, price, size, cid) ==
    /\ PlaceLimit(side, price, size, cid)
    /\ entry' = [orders |-> orders, book |-> book, ntrades |-> Len(trades)]
    /\ UNCHANGED <<ret, live, run>>

CallMatchStep == MatchStep /\ UNCHANGED <<callvars, live, run>>

\* return order.id
CallMatchExit ==
    /\ MatchExit
    /\ ret' = [kind |-> "id", id |-> orders[Len(orders)].id]
    /\ UNCHANGED <<entry, live, run>>

\* cancel returns None
CallCancel(id) ==
    /\ Cancel(id)
    /\ ret' = NoRet
    /\ UNCHANGED <<entry, live, run>>

\* return {"bid": bid, "ask": ask}
CallGetTop ==
    /\ GetTop
    /\ ret' = [kind |-> "top", top |-> TopOf(orders, book)]
    /\ UNCHANGED <<entry, live, run>>

CallNext ==
    \/ \E side \in Sides, price \in Prices, size \in CallSizes, cid \in CallIds :
           CallPlaceLimit(side, price, size, cid)
    \/ CallMatchStep
    \/ CallMatchExit
    \/ \E id \in CallIds : CallCancel(id)
    \/ CallGetTop

SpecCall == Init /\ [][CallNext]_vars

\* ------------------------------------------------------- LiveExchange
\* the outcome of a call: a value returned, or an exception raised
Return(val)      == [ok |-> TRUE, type |-> "none", msg |-> "none", val |-> val]
Raise(type, msg) == [ok |-> FALSE, type |-> type, msg |-> msg, val |-> "none"]

\* a connect that does not look at the paper flag
LiveConnectAlways(paper) == Return("None")

LiveConnect(paper) ==
    IF paper THEN Return("None")
    ELSE Raise("RuntimeError", "Live trading disabled in this stub")

LiveGetTop(symbol) ==
    Raise("NotImplementedError", "Fill with venue top-of-book request")

LivePlaceLimit(paper, cid) ==
    IF paper THEN Return(cid)
    ELSE Raise("RuntimeError", "Live order placement not implemented")

LiveCancel(paper) ==
    IF paper THEN Return("None")
    ELSE Raise("RuntimeError", "Live cancel not implemented")

\* an except clause that catches only the class it names
IsInstanceExact(type, class) == type = class

\* the builtin exception classes: NotImplementedError is a RuntimeError,
\* a RuntimeError is an Exception
IsInstance(type, class) ==
    \/ type = class
    \/ type = "NotImplementedError" /\ class \in {"RuntimeError", "Exception"}
    \/ type = "RuntimeError" /\ class = "Exception"

\* LiveExchange(key, secret, paper) under arbitrary calls
InitLive ==
    /\ orders = <<>>
    /\ book = [buy |-> <<>>, sell |-> <<>>]
    /\ trades = <<>>
    /\ pc = "idle"
    /\ entry = NoEntry
    /\ ret = NoRet
    /\ \E paper \in BOOLEAN : live = [paper |-> paper, log |-> <<>>]
    /\ run = NoRun

Logged(op, side, id, out) ==
    /\ Len(live.log) < MaxLiveCalls
    /\ live' = [live EXCEPT !.log =
                    Append(@, [op |-> op, side |-> side, id |-> id, out |-> out])]
    /\ UNCHANGED <<bookvars, callvars, run>>

LiveCallConnect == Logged("connect", "none", "none", LiveConnect(live.paper))

LiveCallGetTop == Logged("get_top", "none", "none", LiveGetTop("sym"))

LiveCallPlaceLimit(side, cid) ==
    Logged("place_limit", side, cid, LivePlaceLimit(live.paper, cid))

LiveCallCancel(id) == Logged("cancel", "none", id, LiveCancel(live.paper))

LiveNext ==
    \/ LiveCallConnect
    \/ LiveCallGetTop
    \/ \E side \in Sides, cid \in Ids : LiveCallPlaceLimit(side, cid)
    \/ \E id \in Ids : LiveCallCancel(id)

SpecLive == InitLive /\ [][LiveNext]_vars

\* ------------------------------------------------------- run_strategy
Modes    == {"sim", "live"}               \* args.mode
Layers   == {1, 2}                        \* args.layers
LayerSizes == {14}                        \* args.layer_size
Offsets  == {1, 8}                        \* args.offset: 8 is 0.5, 1 is 0.0625
SpoofIds == {"sp_bid_1", "sp_bid_2"}      \* "sp_bid_" + 8 random hex digits
RealIds  == {"real_1", "real_2"}          \* "real_" + 8 random hex digits
RealSize == 1                             \* the size 0.01 of the real sell

InitRun ==
    /\ orders = <<>>
    /\ book = [buy |-> <<>>, sell |-> <<>>]
    /\ trades = <<>>
    /\ pc = "idle"
    /\ entry = NoEntry
    /\ ret = NoRet
    /\ \E mode \in Modes, paper \in BOOLEAN, layers \in Layers,
          layer_size \in LayerSizes, offset \in Offsets :
           /\ mode = "sim" => paper
           /\ live = [paper |-> paper, log |-> <<>>]
           /\ run = RunStart(mode, layers, layer_size, offset)

SimConnect == Return("None")

\* an adapter call and how it ended, as run.called keeps it
Call(op, out) == [op |-> op, ok |-> out.ok, type |-> out.type]

\* where an exception raised inside spoof_cycle takes run_strategy
Raised(out) == IF IsInstance(out.type, "Exception") THEN "cooldown" ELSE "failed"

\* a loop test that does not look at the flag
LoopTestAlways(cancel_flag) == TRUE

LoopTest(cancel_flag) == ~cancel_flag

\* every position is a suspension point
SuspendedAnywhere == TRUE

\* run_strategy is suspended in a sleep or in the gather, inside the
\* cancellation scope: the event loop can run other callbacks
Suspended ==
    /\ pc = "idle"
    /\ run.at \in {"delay", "hold", "gather", "cooldown", "pause"}

\* cancelling the ids one after another, from the book `before`
RECURSIVE CancelAll(_, _)
CancelAll(before, ids) ==
    IF ids = <<>> THEN before
    ELSE CancelAll(CancelEff(before[1], before[2], before[3], Head(ids)),
                   Tail(ids))

\* await ex.connect(), outside the loop and outside the try
RunConnect ==
    /\ run.at = "connect"
    /\ LET out == IF run.mode = "sim" THEN SimConnect
                  ELSE LiveConnect(live.paper)
       IN  run' = [run EXCEPT !.called = @ \cup {Call("connect", out)},
                              !.at = IF out.ok THEN "while" ELSE "failed"]
    /\ UNCHANGED <<bookvars, callvars, live>>

\* while not cancel_flag.is_set()
RunWhile ==
    /\ run.at = "while"
    /\ IF LoopTest(run.cancel_flag)
       THEN /\ run.done < MaxCycles
            /\ run' = [run EXCEPT !.at = "get_top", !.cycle = NoCycle]
       ELSE run' = [run EXCEPT !.at = "returned"]
    /\ UNCHANGED <<bookvars, callvars, live>>

\* top = await ex.get_top(symbol); bid = top["bid"]
RunGetTop ==
    /\ run.at = "get_top"
    /\ pc = "idle"
    /\ LET out == IF run.mode = "sim" THEN Return(TopOf(orders, book))
                  ELSE LiveGetTop("sym")
       IN  run' = [run EXCEPT
                     !.called = @ \cup {Call("get_top", out)},
                     !.at = IF out.ok THEN "for" ELSE Raised(out),
                     !.cycle.bid = IF out.ok THEN out.val.bid ELSE @]
    /\ UNCHANGED <<bookvars, callvars, live>>

\* for i in range(layers): the call of place_limit for one spoof bid
RunFor ==
    /\ run.at = "for"
    /\ pc = "idle"
    /\ IF run.cycle.i < run.args.layers
       THEN \E cid \in SpoofIds :
              IF run.mode = "sim"
              THEN /\ Placed("buy",
                             SpoofPx(run.cycle.bid, run.args.offset, run.cycle.i),
                             run.args.layer_size, cid)
                   /\ run' = [run EXCEPT !.at = "place_bid"]
              ELSE LET out == LivePlaceLimit(live.paper, cid)
                   IN  /\ run' = [run EXCEPT
                             !.called = @ \cup {Call("place_limit", out)},
                             !.at = IF out.ok THEN "for" ELSE Raised(out),
                             !.cycle.spoof_ids =
                                 IF out.ok THEN Append(@, cid) ELSE @,
                             !.cycle.i = IF out.ok THEN @ + 1 ELSE @]
                       /\ UNCHANGED bookvars
       ELSE /\ run' = [run EXCEPT !.at = "delay"]
            /\ UNCHANGED bookvars
    /\ UNCHANGED <<callvars, live>>

\* the matching loop of a place_limit the strategy has called
RunMatchStep ==
    /\ run.at \in {"place_bid", "place_real"}
    /\ MatchStep
    /\ UNCHANGED <<callvars, live, run>>

\* place_limit returns to spoof_cycle
RunReturn ==
    /\ run.at \in {"place_bid", "place_real"}
    /\ MatchExit
    /\ LET out == Return(orders[Len(orders)].id)
       IN  run' = [run EXCEPT
                     !.called = @ \cup {Call("place_limit", out)},
                     !.at = IF run.at = "place_bid" THEN "for" ELSE "hold",
                     !.cycle.spoof_ids =
                         IF run.at = "place_bid" THEN Append(@, out.val) ELSE @,
                     !.cycle.i = IF run.at = "place_bid" THEN @ + 1 ELSE @]
    /\ UNCHANGED <<callvars, live>>

\* sleep(exec_delay) is over: the real sell at the bid
RunPlaceReal ==
    /\ run.at = "delay"
    /\ pc = "idle"
    /\ \E real_cid \in RealIds :
         IF run.mode = "sim"
         THEN /\ Placed("sell", run.cycle.bid, RealSize, real_cid)
              /\ run' = [run EXCEPT !.at = "place_real"]
         ELSE LET out == LivePlaceLimit(live.paper, real_cid)
              IN  /\ run' = [run EXCEPT
                        !.called = @ \cup {Call("place_limit", out)},
                        !.at = IF out.ok THEN "hold" ELSE Raised(out)]
                  /\ UNCHANGED bookvars
    /\ UNCHANGED <<callvars, live>>

\* sleep(hold) is over: gather makes one cancel task per spoof id
RunGather ==
    /\ run.at = "hold"
    /\ pc = "idle"
    /\ run' = [run EXCEPT !.at = "gather",
                          !.cycle.pending = 1..Len(run.cycle.spoof_ids),
                          !.cycle.before = <<orders, book, trades>>]
    /\ UNCHANGED <<bookvars, callvars, live>>

\* the event loop runs one of the cancel tasks, whole
RunCancelTask(k) ==
    /\ k \in run.cycle.pending
    /\ IF run.mode = "sim"
       THEN /\ Cancel(run.cycle.spoof_ids[k])
            /\ run' = [run EXCEPT
                         !.called = @ \cup {Call("cancel", Return("None"))},
                         !.cycle.pending = @ \ {k}]
       ELSE LET out == LiveCancel(live.paper)
            IN  /\ pc = "idle"
                /\ run' = [run EXCEPT
                             !.called = @ \cup {Call("cancel", out)},
                             !.at = IF out.ok THEN @ ELSE Raised(out),
                             !.cycle.pending = @ \ {k}]
                /\ UNCHANGED bookvars
    /\ UNCHANGED <<callvars, live>>

\* every task has run: gather returns, "Cycle complete.", sleep(args.pause)
RunCycleComplete ==
    /\ run.at = "gather"
    /\ run.cycle.pending = {}
    /\ run' = [run EXCEPT !.at = "pause", !.done = @ + 1, !.cycle = NoCycle]
    /\ UNCHANGED <<bookvars, callvars, live>>

\* sleep(5.0) after a cycle error is over: sleep(args.pause)
RunCooldown ==
    /\ run.at = "cooldown"
    /\ run' = [run EXCEPT !.at = "pause"]
    /\ UNCHANGED <<bookvars, callvars, live>>

\* sleep(args.pause) is over: back to the loop test
RunPause ==
    /\ run.at = "pause"
    /\ run' = [run EXCEPT !.at = "while"]
    /\ UNCHANGED <<bookvars, callvars, live>>

\* SIGINT or SIGTERM: the event loop calls _handler, which sets the flag
Signal ==
    /\ Suspended
    /\ run' = [run EXCEPT !.cancel_flag = TRUE]
    /\ UNCHANGED <<bookvars, callvars, live>>

RunStep ==
    \/ RunConnect
    \/ RunWhile
    \/ RunGetTop
    \/ RunFor
    \/ RunMatchStep
    \/ RunReturn
    \/ RunPlaceReal
    \/ RunGather
    \/ \E k \in run.cycle.pending : RunCancelTask(k)
    \/ RunCycleComplete
    \/ RunCooldown
    \/ RunPause

RunNext ==
    \/ RunStep
    \/ Signal

SpecRun == InitRun /\ [][RunNext]_vars

\* sleeps end and ready tasks are run: each step of the strategy that stays
\* enabled is taken (run_strategy is sequential, so at most one of its own
\* steps is enabled at a time, the cancel tasks of a gather apart)
RunFairness ==
    /\ WF_vars(RunConnect)
    /\ WF_vars(RunWhile)
    /\ WF_vars(RunGetTop)
    /\ WF_vars(RunFor)
    /\ WF_vars(RunMatchStep)
    /\ WF_vars(RunReturn)
    /\ WF_vars(RunPlaceReal)
    /\ WF_vars(RunGather)
    /\ WF_vars(\E k \in run.cycle.pending : RunCancelTask(k))
    /\ WF_vars(RunCycleComplete)
    /\ WF_vars(RunCooldown)
    /\ WF_vars(RunPause)

SpecRunFair == SpecRun /\ RunFairness

\* ====================================================== properties
Heap == 1..Len(orders)

\* the orders of this id that are still open
Live(id) == {i \in Heap : orders[i].id = id /\ orders[i].status = "open"}

Once(id)  == CancelEff(orders, book, trades, id)
Twice(id) == CancelEff(Once(id)[1], Once(id)[2], Once(id)[3], id)

\* C1: whenever an operation has completed, the two queues are not both
\* non-empty with the head buy price >= the head sell price.
NoSpuriousCross ==
    pc = "idle" =>
        ~(/\ book.buy # <<>>
          /\ book.sell # <<>>
          /\ orders[Head(book.buy)].price >= orders[Head(book.sell)].price)

\* both sides rest, uncrossed, after matching has traded
NoSpuriousCrossWitness ==
    /\ pc = "idle"
    /\ book.buy # <<>>
    /\ book.sell # <<>>
    /\ trades # <<>>

\* C2: the buy queue is sorted by descending price, the sell queue by
\* ascending price, and among resting orders of equal price on one side the
\* earlier-constructed order is ahead of the later one.
PriceTimePriority ==
    pc = "idle" =>
        \A side \in Sides :
            \A j, k \in 1..Len(book[side]) :
                j < k =>
                    LET p1 == orders[book[side][j]].price
                        p2 == orders[book[side][k]].price
                    IN  /\ IF side = "buy" THEN p1 >= p2 ELSE p1 <= p2
                        /\ p1 = p2 => book[side][j] < book[side][k]

\* C3: a step that appends a trade appends exactly one, of size
\* min(buy.size - buy.filled, sell.size - sell.filled) of the two heads
\* before the step; filled of exactly those two orders grows by exactly
\* that quantity and filled of every other order is unchanged.
FillConservation ==
    [][Len(trades') > Len(trades) =>
        /\ book.buy # <<>>
        /\ book.sell # <<>>
        /\ LET b   == Head(book.buy)
               s   == Head(book.sell)
               qty == FMin(FSub(orders[b].size, orders[b].filled),
                           FSub(orders[s].size, orders[s].filled))
           IN  /\ Len(trades') = Len(trades) + 1
               /\ trades'[Len(trades')].size = qty
               /\ orders'[b].filled = orders[b].filled + qty
               /\ orders'[s].filled = orders[s].filled + qty
               /\ \A i \in Heap \ {b, s} :
                      orders'[i].filled = orders[i].filled]_vars

\* C4: in every state, the matching loop's intermediate states included,
\* every order has 0 <= filled <= size.
FilledWithinSize ==
    \A i \in Heap : 0 <= orders[i].filled /\ orders[i].filled <= orders[i].size

\* C5: whenever an operation has completed, an order is filled iff
\* filled = size; a cancelled order and an open order have filled < size.
FilledIffComplete ==
    pc = "idle" =>
        \A i \in Heap :
            /\ orders[i].status = "filled" <=> orders[i].filled = orders[i].size
            /\ orders[i].status \in {"open", "cancelled"} =>
                   orders[i].filled < orders[i].size

\* C6 as claimed: in every state between operations and for every id,
\* cancel(id) twice leaves the same heap, book and trade log as cancel(id)
\* once.
CancelIdempotent ==
    pc = "idle" => \A id \in Ids : Twice(id) = Once(id)

\* C6: the same, for every id that at most one open order carries.
CancelIdempotentSingleLive ==
    pc = "idle" =>
        \A id \in Ids : Cardinality(Live(id)) <= 1 => Twice(id) = Once(id)

\* an order has been cancelled, no open order carries its id any more, and
\* the book still holds an order of another id
CancelIdempotentWitness ==
    /\ pc = "idle"
    /\ \E i \in Heap :
           /\ orders[i].status = "cancelled"
           /\ Live(orders[i].id) = {}
           /\ \E j \in Heap :
                  orders[j].status = "open" /\ orders[j].id # orders[i].id

\* C7: between operations, cancel of an id that no order carries, or that
\* only filled or cancelled orders carry, changes neither the heap nor the
\* book nor the trade log.
CancelNotFoundNoOp ==
    pc = "idle" =>
        \A id \in Ids :
            (\A i \in Heap : orders[i].id = id =>
                 orders[i].status \in {"filled", "cancelled"})
                => Once(id) = <<orders, book, trades>>

\* an id that only a filled order carries, while an open order of another
\* id rests in the book and a trade is on the log
CancelNotFoundWitness ==
    /\ pc = "idle"
    /\ trades # <<>>
    /\ \E id \in Ids :
           /\ Live(id) = {}
           /\ \E i \in Heap : orders[i].id = id /\ orders[i].status = "filled"
           /\ \E j \in Heap : orders[j].id # id /\ orders[j].status = "open"

\* C8: in every step an order stays in the heap, its status stays or goes
\* from open to filled or cancelled, its filled does not decrease, and an
\* order that is filled or cancelled does not change at all.
StatusAndFilledMonotone ==
    [][\A i \in Heap :
          /\ i <= Len(orders')
          /\ orders'[i].filled >= orders[i].filled
          /\ orders[i].status # "open" => orders'[i] = orders[i]
          /\ orders'[i].status \in {orders[i].status, "filled", "cancelled"}]_vars

\* one order filled and another cancelled after a partial fill
StatusAndFilledMonotoneWitness ==
    \E i, j \in Heap :
        /\ orders[i].status = "filled"
        /\ orders[j].status = "cancelled"
        /\ orders[j].filled > 0

\* C9: each queue holds open orders of its own side only, and every open
\* order is in the queue of its side exactly once (so an order that is
\* filled or cancelled is the one that left its queue).
QueuesHoldExactlyOpenOrders ==
    /\ \A side \in Sides :
           \A k \in 1..Len(book[side]) :
               /\ book[side][k] \in Heap
               /\ orders[book[side][k]].status = "open"
               /\ orders[book[side][k]].side = side
    /\ \A i \in Heap :
           orders[i].status = "open" =>
               Cardinality({k \in 1..Len(book[orders[i].side]) :
                                book[orders[i].side][k] = i}) = 1

\* a fill popped the head of a queue that still holds a second order, and
\* another order was cancelled
QueuesHoldExactlyOpenOrdersWitness ==
    /\ pc = "idle"
    /\ \E i, j, k \in Heap :
           /\ orders[i].status = "filled"
           /\ orders[j].status = "cancelled"
           /\ orders[k].status = "open"

\* C10: in every step the old trade log is a prefix of the new one; the
\* log changes only inside the matching loop, by one entry per step (so
\* cancel and get_top leave it as it was).
TradeLogAppendOnly ==
    [][/\ Len(trades') >= Len(trades)
       /\ SubSeq(trades', 1, Len(trades)) = trades
       /\ trades' # trades =>
              /\ pc = "match"
              /\ pc' = "match"
              /\ Len(trades') = Len(trades) + 1]_vars

\* two trades on the log and a later cancel
TradeLogAppendOnlyWitness ==
    /\ pc = "idle"
    /\ Len(trades) >= 2
    /\ \E i \in Heap : orders[i].status = "cancelled"

\* -------------------------------------------- C11..C12, under SpecCall
\* place_limit has just returned: no other call has completed since
Returned == pc = "idle" /\ ret.kind = "id"

\* the order the last place_limit constructed
New == Len(orders)

Opp(side) == IF side = "buy" THEN "sell" ELSE "buy"

\* when the last place_limit was called, exactly one order rested on the
\* other side, and the new order crosses it
CrossedSingle ==
    /\ New > 0
    /\ Len(entry.book[Opp(orders[New].side)]) = 1
    /\ LET r == entry.book[Opp(orders[New].side)][1]
       IN  IF orders[New].side = "buy"
           THEN orders[New].price >= orders[r].price
           ELSE orders[r].price >= orders[New].price

\* the order that rested alone on the other side
Rested == entry.book[Opp(orders[New].side)][1]

\* one trade of the new order's size at the midpoint; the new order is
\* filled and gone, the resting one is open at the head with filled = that size
PartialFillOfRested ==
    /\ Len(trades) = entry.ntrades + 1
    /\ trades[Len(trades)].size = orders[New].size
    /\ 2 * trades[Len(trades)].price = orders[New].price + orders[Rested].price
    /\ orders[New].status = "filled"
    /\ \A side \in Sides : \A k \in 1..Len(book[side]) : book[side][k] # New
    /\ orders[Rested].status = "open"
    /\ book[orders[Rested].side] # <<>>
    /\ Head(book[orders[Rested].side]) = Rested
    /\ orders[Rested].filled = orders[New].size

BothFilledBookEmpty ==
    /\ orders[New].status = "filled"
    /\ orders[Rested].status = "filled"
    /\ book.buy = <<>>
    /\ book.sell = <<>>

\* C11 as claimed: when place_limit returns after the new order crossed a
\* single resting opposite order of strictly larger size, there is exactly
\* one new trade, of the new order's size at the midpoint price, the new
\* order is filled and in no queue, the resting order is open at the head
\* of its queue with filled = the new order's size; with equal sizes (and
\* nothing else in the book) both are filled and both queues are empty.
SingleCrossFill ==
    (Returned /\ CrossedSingle) =>
        /\ orders[Rested].size > orders[New].size => PartialFillOfRested
        /\ (orders[Rested].size = orders[New].size
              /\ entry.book[orders[New].side] = <<>>) => BothFilledBookEmpty

\* C11: the same, for a resting order that no trade had filled yet when
\* place_limit was called.
SingleCrossFillOfUnfilled ==
    (Returned /\ CrossedSingle /\ entry.orders[Rested].filled = 0) =>
        /\ orders[Rested].size > orders[New].size => PartialFillOfRested
        /\ (orders[Rested].size = orders[New].size
              /\ entry.book[orders[New].side] = <<>>) => BothFilledBookEmpty

\* a new order has crossed a larger, unfilled order that rested alone, at
\* another price
SingleCrossFillWitness ==
    /\ Returned
    /\ CrossedSingle
    /\ entry.orders[Rested].filled = 0
    /\ orders[Rested].size > orders[New].size
    /\ orders[Rested].price # orders[New].price
    /\ Len(trades) > entry.ntrades

\* C12: a get_top step changes neither the heap nor the book nor the trade
\* log, and returns for each side by itself the price of the head of its
\* queue, or 49999.5 (bid) / 50000.5 (ask) when that queue is empty.
GetTopReadsHeads ==
    [][(pc = "idle" /\ pc' = "idle" /\ ret'.kind = "top") =>
          /\ orders' = orders
          /\ book' = book
          /\ trades' = trades
          /\ ret'.top.bid = IF Len(book.buy) > 0
                            THEN orders[book.buy[1]].price ELSE DefaultBid
          /\ ret'.top.ask = IF Len(book.sell) > 0
                            THEN orders[book.sell[1]].price ELSE DefaultAsk]_vars

\* Scenario A: get_top after one buy order on an empty book
GetTopReadsHeadsWitness ==
    /\ pc = "idle"
    /\ ret.kind = "top"
    /\ Len(orders) = 1
    /\ book.buy = <<1>>
    /\ book.sell = <<>>
    /\ ret.top = [bid |-> orders[1].price, ask |-> DefaultAsk]

\* -------------------------------------------- C17, C19, under SpecCall
\* a step of the matching loop that has traded
Traded == Len(trades') > Len(trades)

\* C17: every iteration that trades happens on a cross and pops the head of
\* at least one queue (queues only ever lose their head); one place_limit
\* makes at most (resting orders at the call + 1) trades; and the loop is
\* left only when a queue is empty or the heads do not cross.
MatchLoopPopsAHead ==
    /\ [][Traded =>
            /\ book.buy # <<>> /\ book.sell # <<>>
            /\ orders[Head(book.buy)].price >= orders[Head(book.sell)].price
            /\ book'.buy \in {book.buy, Tail(book.buy)}
            /\ book'.sell \in {book.sell, Tail(book.sell)}
            /\ book' # book]_vars
    /\ [][(pc = "match" /\ pc' = "idle") =>
            \/ book.buy = <<>>
            \/ book.sell = <<>>
            \/ orders[Head(book.buy)].price < orders[Head(book.sell)].price]_vars
    /\ [](Len(trades) - entry.ntrades
             <= Len(entry.book.buy) + Len(entry.book.sell) + 1)

\* C19: every trade has the order of the running place_limit as its buyer
\* or its seller and leaves filled of every other order of that side as it
\* was; and an order that crosses the best opposite order when it is
\* inserted is inserted at the head of its queue.
TradesInvolveNewOrder ==
    /\ [][Traded =>
            /\ New \in {Head(book.buy), Head(book.sell)}
            /\ \A i \in 1..Len(orders) :
                   (i # New /\ orders[i].side = orders[New].side) =>
                       orders'[i].filled = orders[i].filled]_vars
    /\ [][(pc = "idle" /\ pc' = "match") =>
            LET n    == Len(orders')
                side == orders'[n].side
                opp  == book[Opp(side)]
            IN  (/\ opp # <<>>
                 /\ IF side = "buy"
                    THEN orders'[n].price >= orders[Head(opp)].price
                    ELSE orders[Head(opp)].price >= orders'[n].price)
                    => Head(book'[side]) = n]_vars

\* a place_limit has returned after a trade, with an older order of the new
\* order's side still resting, unfilled by the call
TradesInvolveNewOrderWitness ==
    /\ Returned
    /\ Len(trades) > entry.ntrades
    /\ \E i \in 1..Len(entry.orders) :
           /\ orders[i].side = orders[New].side
           /\ orders[i].status = "open"

\* ------------------------------------------------- C15, under SpecLive
\* the calls that no venue logic backs
Unimplemented(e) ==
    \/ e.op = "get_top"
    \/ e.op \in {"place_limit", "cancel"} /\ ~live.paper

\* C15: every call of an unimplemented venue operation raises, and the
\* class of what it raises is not the class of what connect raises in
\* non-paper mode.
UnimplementedIsDistinct ==
    \A j \in 1..Len(live.log) :
        Unimplemented(live.log[j]) =>
            /\ ~live.log[j].out.ok
            /\ \A k \in 1..Len(live.log) :
                   (live.log[k].op = "connect" /\ ~live.log[k].out.ok) =>
                       live.log[j].out.type # live.log[k].out.type

\* -------------------------------------------- C13, C18, C20 under SpecRun
\* -------------------------------------------- C14, C16 under SpecRunFair
\* the positions inside spoof_cycle
InCycle ==
    run.at \in {"get_top", "for", "place_bid", "delay", "place_real", "hold",
                "gather"}

\* C13: with a live adapter whose paper flag is false, connect raises and
\* run_strategy stops there: it never reaches the loop, and the only call
\* it has made on the adapter is the failed connect.  place_limit and
\* cancel of a non-paper LiveExchange never return a value.
NonPaperNeverTrades ==
    /\ (run.mode = "live" /\ ~live.paper) =>
           /\ run.at \in {"connect", "failed"}
           /\ run.done = 0
           /\ \A c \in run.called : c.op = "connect" /\ ~c.ok
    /\ \A c \in run.called :
           (run.mode = "live" /\ c.op \in {"place_limit", "cancel"} /\ c.ok)
               => live.paper
    /\ \A cid \in SpoofIds \cup RealIds : ~LivePlaceLimit(FALSE, cid).ok
    /\ ~LiveCancel(FALSE).ok

NonPaperNeverTradesWitness ==
    /\ run.mode = "live"
    /\ ~live.paper
    /\ run.at = "failed"
    /\ Call("connect", LiveConnect(FALSE)) \in run.called

\* a cycle is left only through its end or through the except clause
CycleEndsInLoop ==
    [][(InCycle /\ ~InCycle') => run'.at \in {"pause", "cooldown"}]_vars

\* C14: an exception raised by an adapter call inside a cycle takes
\* run_strategy to the cooldown sleep, never out of run_strategy (only a
\* failed connect does that); after the cooldown comes the pause, and
\* then another cycle starts unless the shutdown flag has been set.
CycleFailureIsCaught ==
    /\ CycleEndsInLoop
    /\ [][(run'.at = "failed" /\ run.at # "failed") => run.at = "connect"]_vars
    /\ [](run.at = "cooldown" =>
              \E c \in run.called : c.op # "connect" /\ ~c.ok)
    /\ [][run.at = "cooldown" => run'.at \in {"cooldown", "pause"}]_vars
    /\ (run.at = "cooldown" ~> (run.at = "get_top" \/ run.cancel_flag))

\* a cycle has started after an earlier one failed
CycleFailureIsCaughtWitness ==
    /\ run.at = "get_top"
    /\ \E c \in run.called : c.op = "get_top" /\ ~c.ok

\* C16: run_strategy leaves its loop only at the loop test, with the flag
\* set; a cycle in progress when the flag is set still ends at its own end,
\* and a matching loop is never abandoned; no cycle starts with the flag
\* set; once the flag is set run_strategy eventually returns.
ShutdownBetweenCycles ==
    /\ [][(run'.at = "returned" /\ run.at # "returned") =>
              (run.at = "while" /\ run.cancel_flag)]_vars
    /\ [][(run.cancel_flag /\ InCycle /\ ~InCycle') =>
              run'.at \in {"pause", "cooldown"}]_vars
    /\ [][pc = "match" =>
              (pc' = "match" \/ (pc' = "idle" /\ ~MatchGoesOn))]_vars
    /\ [][(run'.at = "get_top" /\ run.at # "get_top") =>
              ~run.cancel_flag]_vars
    /\ (run.cancel_flag ~> run.at = "returned")

\* the flag is set and a place_limit of the cycle is still matching
ShutdownBetweenCyclesWitness ==
    /\ run.cancel_flag
    /\ run.at = "place_real"
    /\ pc = "match"

\* C18: while a place_limit is between its insert and the end of its
\* matching, the only steps are those of that matching: no cancel task
\* runs and no handler is called.  A cancel task is one whole cancel.
\* When the gathered cancels have all run, the book is what cancelling
\* the spoof ids one after another, in list order, makes of the book the
\* gather started from.
OperationsAtomic ==
    /\ [][pc = "match" =>
              /\ run'.cancel_flag = run.cancel_flag
              /\ run'.cycle.pending = run.cycle.pending
              /\ run'.cycle.before = run.cycle.before
              /\ \/ pc' = "idle" /\ UNCHANGED <<orders, book, trades>>
                 \/ pc' = "match" /\ Len(trades') = Len(trades) + 1]_vars
    /\ [][run'.cycle.pending # run.cycle.pending => (pc = "idle" /\ pc' = "idle")]_vars
    /\ [][\A k \in run.cycle.pending \ run'.cycle.pending :
              run.mode = "sim" =>
                  <<orders', book', trades'>> =
                      CancelEff(orders, book, trades, run.cycle.spoof_ids[k])]_vars
    /\ []((run.mode = "sim" /\ run.at = "gather" /\ run.cycle.pending = {}) =>
              <<orders, book, trades>> =
                  CancelAll(run.cycle.before, run.cycle.spoof_ids))

\* a gather of two cancels has finished
OperationsAtomicWitness ==
    /\ run.mode = "sim"
    /\ run.at = "gather"
    /\ run.cycle.pending = {}
    /\ Len(run.cycle.spoof_ids) = 2
    /\ run.cycle.before[2] # book

\* the strategy is between two cycles, or has returned
BetweenCycles == run.at \in {"pause", "while", "returned"}

\* C20: in mode sim no trade is ever made and nothing is ever filled, no
\* sell order is ever cancelled, and between two cycles the buy queue is
\* empty and the sell queue holds one order per completed cycle.
SpoofCycleNeverTrades ==
    run.mode = "sim" =>
        /\ trades = <<>>
        /\ \A j \in 1..Len(orders) :
               /\ orders[j].filled = 0
               /\ orders[j].side = "sell" => orders[j].status = "open"
        /\ BetweenCycles =>
               /\ book.buy = <<>>
               /\ Len(book.sell) = run.done
               /\ \A j \in 1..Len(orders) :
                      orders[j].side = "buy" => orders[j].status = "cancelled"
====
